---- MODULE Spec2Model ----
(***************************************************************************)
(* Atlas: the day-planning core.                                           *)
(*   - assignTasksToBlocks  : block allocator (allocate)                   *)
(*   - generateSuggestions  : budget suggester (suggest)                   *)
(*   - FreeTimeDetector.detectFreeSlotsFromEvents : free-gap computation   *)
(*   - analyzeCalendar, classifyEvent : the day's block sequence           *)
(*   - FreeTimeDetector.detectFreeSlots, convertAllDayEvent,               *)
(*     suggestTasksForSlots : all-day expansion and per-slot offers        *)
(* Every function is modelled as the loop the source runs, one action per  *)
(* loop iteration.  Instants are minutes counted from 00:00 of the planned *)
(* day; a task without estimate (null) carries estimatedDuration = 0,      *)
(* which `||` treats like null.                                            *)
(***************************************************************************)
EXTENDS Integers, Sequences, FiniteSets, TLC

VARIABLES
    \* ---- assignTasksToBlocks ----
    blocks,          \* the caller's TimeBlock[]
    tasks,           \* the caller's task array
    availableTasks,  \* the function's working copy of the pool
    eligibleTasks,   \* eligible list of the block being filled
    assignments,     \* the returned id list
    remainingTime,   \* minutes left in the block being filled
    blockIdx,        \* position of `for (const block of blocks)`
    taskIdx,         \* position of `for (const task of eligibleTasks)`
    placements,      \* log of every assignments.push: task, block, capacity
    run,             \* 1 = first call, 2 = the same call repeated
    firstResult,     \* what the first call returned
    apc,             \* control point of assignTasksToBlocks
    \* ---- generateSuggestions ----
    sTasks,           \* the task list passed in
    availableMinutes, \* the budget passed in
    fittingTasks,     \* tasks whose own duration is within the budget
    suggestions,      \* the returned list
    sRemaining,       \* generateSuggestions' remainingTime
    sIdx,             \* position of `for (const task of fittingTasks)`
    spc,              \* control point of generateSuggestions
    \* ---- FreeTimeDetector.detectFreeSlotsFromEvents ----
    gEvents,            \* the events passed in
    dayStart,           \* window start
    dayEnd,             \* window end
    minDurationMinutes, \* shortest gap worth reporting
    sortedEvents,       \* events of the window, by start
    currentTime,        \* the cursor
    freeSlots,          \* the returned list
    gIdx,               \* position of `for (const event of sortedEvents)`
    gpc,                \* control point of detectFreeSlotsFromEvents
    \* ---- analyzeCalendar ----
    cEvents,        \* the day's events, as the route fetched them
    userCalendars,  \* the user's enabled calendars
    today,          \* the route's `today`  (analyzeCalendar's dayStart)
    tomorrow,       \* the route's `tomorrow` (analyzeCalendar's dayEnd)
    cSorted,        \* analyzeCalendar's sortedEvents
    cCurrent,       \* analyzeCalendar's currentTime
    endTime,        \* analyzeCalendar's endTime
    timeBlocks,     \* analyzeCalendar's blocks, returned as timeBlocks
    cIdx,           \* position of `for (const event of sortedEvents)`
    cpc,            \* control point of analyzeCalendar
    \* ---- FreeTimeDetector.detectFreeSlots, suggestTasksForSlots ----
    dEvents,          \* detectFreeSlots' events
    configs,          \* detectFreeSlots' configs
    processedEvents,  \* the events mapped so far
    dIdx,             \* position of events.map
    slotTasks,        \* suggestTasksForSlots' tasks
    slotSuggestions,  \* what suggestTasksForSlots returned
    dpc,              \* control point of detectFreeSlots and its caller
    \* ---- GeminiRateLimiter and its callers ----
    requestsPerMinute, \* data.requestsPerMinute: stamps of recorded requests
    requestsPerDay,    \* data.requestsPerDay
    currentDate,       \* data.currentDate
    now,               \* Date.now()
    ticks,             \* clock steps taken
    hpc                \* control point of each route handler

allocVars == <<blocks, tasks, availableTasks, eligibleTasks, assignments,
               remainingTime, blockIdx, taskIdx, placements, run,
               firstResult, apc>>

suggestVars == <<sTasks, availableMinutes, fittingTasks, suggestions,
                 sRemaining, sIdx, spc>>

gapVars == <<gEvents, dayStart, dayEnd, minDurationMinutes, sortedEvents,
             currentTime, freeSlots, gIdx, gpc>>

calVars == <<cEvents, userCalendars, today, tomorrow, cSorted, cCurrent,
             endTime, timeBlocks, cIdx, cpc>>

detectVars == <<dEvents, configs, processedEvents, dIdx, slotTasks,
                slotSuggestions, dpc>>

limiterVars == <<requestsPerMinute, requestsPerDay, currentDate, now, ticks,
                 hpc>>

vars == <<allocVars, suggestVars, gapVars, calVars, detectVars, limiterVars>>

\* What each operation cannot touch: the other operations' state.
notAllocVars ==
    <<suggestVars, gapVars, calVars, detectVars, limiterVars>>
notSuggestVars ==
    <<allocVars, gapVars, calVars, detectVars, limiterVars>>
notGapVars ==
    <<allocVars, suggestVars, calVars, detectVars, limiterVars>>
notCalVars ==
    <<allocVars, suggestVars, gapVars, detectVars, limiterVars>>
notDetectVars == <<allocVars, suggestVars, calVars, limiterVars>>
notLimiterVars == <<allocVars, suggestVars, gapVars, calVars, detectVars>>

----------------------------------------------------------------------------
(* Bounds of the model                                                     *)
MaxTasks == 3
MaxBlocks == 2
MaxSuggestTasks == 6
MaxEvents == 3
MaxDayEvents == 2
MaxAllDayEvents == 2
MaxSlotTasks == 1
MaxCalendars == 2
MaxPoolTasks == 2
MaxReasoningTasks == 3
MaxHandlers == 3
MaxTicks == 3

(* Program constants                                                       *)
DefaultDuration == 30
MinBlockMinutes == 15
MinUsefulMinutes == 5
MaxSuggestions == 5
MinutesPerDay == 1440
DayStartHour == 8
DayEndHour == 23
FreeGapMinutes == 15

----------------------------------------------------------------------------
(* Generic helpers                                                         *)

\* Array.prototype.findIndex(t => t.id === id): first position, 0 for -1.
RECURSIVE FindIndexFrom(_, _, _)
FindIndexFrom(s, id, i) ==
    IF i > Len(s) THEN 0
    ELSE IF s[i].id = id THEN i
         ELSE FindIndexFrom(s, id, i + 1)

FindIndex(s, id) == FindIndexFrom(s, id, 1)

SpliceKeep(s, i) == s

\* Array.prototype.splice(i, 1) guarded by `index !== -1`.
SpliceAt(s, i) ==
    IF i = 0 THEN s
    ELSE [k \in 1..(Len(s) - 1) |-> IF k < i THEN s[k] ELSE s[k + 1]]

----------------------------------------------------------------------------
(* Inputs                                                                  *)

Contexts == {"PERSONAL", "WORK", "LEARNING"}
BlockContexts == {"LEARNING", "WORK", "FREE"}

\* Tasks as the task routes store them: a context, an estimate out of the
\* schemas' enum (5, 10, 15, 30, 60, ...) or null (0), a status that the
\* route's query lets through.
TaskKinds ==
    { [context |-> "PERSONAL", estimatedDuration |-> 0,  status |-> "INBOX"],
      [context |-> "PERSONAL", estimatedDuration |-> 5,  status |-> "PLANNED"],
      [context |-> "PERSONAL", estimatedDuration |-> 15, status |-> "INBOX"],
      [context |-> "WORK",     estimatedDuration |-> 10, status |-> "INBOX"],
      [context |-> "WORK",     estimatedDuration |-> 60, status |-> "IN_PROGRESS"],
      [context |-> "LEARNING", estimatedDuration |-> 0,  status |-> "INBOX"] }

\* Task ids are the database's primary keys: distinct.
WithIds(kinds) ==
    [i \in 1..Len(kinds) |->
        [id |-> i, context |-> kinds[i].context,
         estimatedDuration |-> kinds[i].estimatedDuration,
         status |-> kinds[i].status]]

TaskLists == { WithIds(k) : k \in UNION { [1..n -> TaskKinds] : n \in 1..MaxTasks } }

\* Blocks as analyzeCalendar builds them: a free half hour, a ten-minute
\* event on an unmarked calendar, an hour of work, an hour of courses.
BlockKinds ==
    { [start |-> 480, end |-> 510, context |-> "FREE"],
      [start |-> 510, end |-> 520, context |-> "FREE"],
      [start |-> 540, end |-> 600, context |-> "WORK"],
      [start |-> 600, end |-> 660, context |-> "LEARNING"] }

BlockLists == UNION { [1..n -> BlockKinds] : n \in 1..MaxBlocks }

\* Inputs of the worked example of the allocator: estimatedDuration is an
\* INTEGER column, so a task may carry 45 minutes; the blocks are a free
\* hour, a ten-minute event on an unmarked calendar, an hour of courses,
\* an event that ends when it starts and one that ends before it starts.
ExampleTaskKinds ==
    { [context |-> "PERSONAL", estimatedDuration |-> d, status |-> "INBOX"] :
          d \in {5, 15, 30, 45} }

ExampleTaskLists ==
    { WithIds(k) : k \in UNION { [1..n -> ExampleTaskKinds] : n \in 1..MaxTasks } }

ExampleBlockKinds ==
    { [start |-> 480, end |-> 540, context |-> "FREE"],
      [start |-> 540, end |-> 550, context |-> "FREE"],
      [start |-> 600, end |-> 660, context |-> "LEARNING"],
      [start |-> 550, end |-> 550, context |-> "FREE"],
      [start |-> 570, end |-> 560, context |-> "FREE"] }

ExampleBlockLists == UNION { [1..n -> ExampleBlockKinds] : n \in 1..MaxBlocks }

\* Task pools as a caller other than the two routes may pass them: the
\* functions take any[], so a task of the pool may be COMPLETED.
AnyStatusTaskKinds ==
    { [context |-> "PERSONAL", estimatedDuration |-> d, status |-> st] :
          d \in {15, 30}, st \in {"INBOX", "COMPLETED"} }

AnyStatusTaskLists ==
    { WithIds(k) :
        k \in UNION { [1..n -> AnyStatusTaskKinds] : n \in 1..MaxPoolTasks } }

AnyStatusBudgets == {20, 60}

\* The same pool as the suggester reads it: the fields it uses besides the
\* status, the tasks having middle priority, no deadline and type ADMIN.
AsSuggestTasks(pool) ==
    [i \in 1..Len(pool) |->
        [id |-> pool[i].id, estimatedDuration |-> pool[i].estimatedDuration,
         status |-> pool[i].status, priority |-> 5, type |-> "ADMIN",
         deadline |-> FALSE, daysUntilDeadline |-> 0]]

----------------------------------------------------------------------------
(* assignTasksToBlocks                                                     *)

\* task.estimatedDuration || 30
DurationOf(task) ==
    IF task.estimatedDuration = 0 THEN DefaultDuration ELSE task.estimatedDuration

\* (block.end.getTime() - block.start.getTime()) / (60 * 1000)
BlockDuration(block) == block.end - block.start

IsLearningNever(block) == FALSE

\* if (block.context === 'LEARNING') continue;
IsLearning(block) == block.context = "LEARNING"

IsTooShortNever(block) == FALSE

\* if (blockDuration < 15) continue;
IsTooShort(block) == BlockDuration(block) < MinBlockMinutes

IsWork(task) == task.context = "WORK"
IsPersonal(task) == task.context = "PERSONAL"
IsPersonalOrLearning(task) == task.context \in {"PERSONAL", "LEARNING"}
IsAnyContext(task) == TRUE

EligibleTasksLoose(block, pool) ==
    IF block.context = "WORK"
    THEN SelectSeq(pool, IsWork) \o SelectSeq(pool, IsPersonal)
    ELSE IF block.context = "FREE"
         THEN SelectSeq(pool, IsAnyContext)
         ELSE <<>>

EligibleTasksPersonalFirst(block, pool) ==
    IF block.context = "WORK"
    THEN SelectSeq(pool, IsPersonal) \o SelectSeq(pool, IsWork)
    ELSE IF block.context = "FREE"
         THEN SelectSeq(pool, IsPersonalOrLearning)
         ELSE <<>>

\* WORK: work tasks then personal tasks; FREE: personal and learning tasks
\* (Array.prototype.filter is SelectSeq).
EligibleTasks(block, pool) ==
    IF block.context = "WORK"
    THEN SelectSeq(pool, IsWork) \o SelectSeq(pool, IsPersonal)
    ELSE IF block.context = "FREE"
         THEN SelectSeq(pool, IsPersonalOrLearning)
         ELSE <<>>

FitsAlways(duration, remaining) == TRUE

FitsWithRoomToSpare(duration, remaining) == duration < remaining

\* if (duration <= remainingTime)
Fits(duration, remaining) == duration <= remaining

BlockIsFullAtMinimum(remaining) == remaining <= MinBlockMinutes

BlockIsFullWhenEmpty(remaining) == remaining <= 0

\* if (remainingTime < 15) break;
BlockIsFull(remaining) == remaining < MinBlockMinutes

ScanEndsOnMisfit(placed, left) == ~placed \/ BlockIsFull(left)

\* The test after the `if (duration <= remainingTime) { ... }`: it does not
\* ask whether the task was placed.
ScanEnds(placed, left) == BlockIsFull(left)

CallerTasksAliased(callerTasks, pool) == pool

\* const availableTasks = [...tasks]: the splice works on a copy, the
\* caller's array keeps its elements.
CallerTasksAfterSplice(callerTasks, pool) == callerTasks

AllocIdle ==
    /\ blocks = <<>>
    /\ tasks = <<>>
    /\ availableTasks = <<>>
    /\ eligibleTasks = <<>>
    /\ assignments = <<>>
    /\ remainingTime = 0
    /\ blockIdx = 0
    /\ taskIdx = 0
    /\ placements = <<>>
    /\ run = 0
    /\ firstResult = <<>>
    /\ apc = "idle"

\* The state on entry to the loop over the blocks:
\* const assignments = []; const availableTasks = [...tasks];
AllocInit ==
    /\ blocks \in BlockLists
    /\ tasks \in TaskLists
    /\ availableTasks = tasks
    /\ eligibleTasks = <<>>
    /\ assignments = <<>>
    /\ remainingTime = 0
    /\ blockIdx = 1
    /\ taskIdx = 0
    /\ placements = <<>>
    /\ run = 1
    /\ firstResult = <<>>
    /\ apc = "block"

\* The same entry with the inputs of the worked example.
AllocExampleInit ==
    /\ blocks \in ExampleBlockLists
    /\ tasks \in ExampleTaskLists
    /\ availableTasks = tasks
    /\ eligibleTasks = <<>>
    /\ assignments = <<>>
    /\ remainingTime = 0
    /\ blockIdx = 1
    /\ taskIdx = 0
    /\ placements = <<>>
    /\ run = 1
    /\ firstResult = <<>>
    /\ apc = "block"

SkipLearningBlock ==
    /\ apc = "block"
    /\ blockIdx <= Len(blocks)
    /\ IsLearning(blocks[blockIdx])
    /\ blockIdx' = blockIdx + 1
    /\ UNCHANGED <<blocks, tasks, availableTasks, eligibleTasks, assignments,
                   remainingTime, taskIdx, placements, run, firstResult, apc>>
    /\ UNCHANGED notAllocVars

SkipShortBlock ==
    /\ apc = "block"
    /\ blockIdx <= Len(blocks)
    /\ ~IsLearning(blocks[blockIdx])
    /\ IsTooShort(blocks[blockIdx])
    /\ blockIdx' = blockIdx + 1
    /\ UNCHANGED <<blocks, tasks, availableTasks, eligibleTasks, assignments,
                   remainingTime, taskIdx, placements, run, firstResult, apc>>
    /\ UNCHANGED notAllocVars

\* eligibleTasks = ...; let remainingTime = blockDuration;
EnterBlock ==
    /\ apc = "block"
    /\ blockIdx <= Len(blocks)
    /\ ~IsLearning(blocks[blockIdx])
    /\ ~IsTooShort(blocks[blockIdx])
    /\ eligibleTasks' = EligibleTasks(blocks[blockIdx], availableTasks)
    /\ remainingTime' = BlockDuration(blocks[blockIdx])
    /\ taskIdx' = 1
    /\ apc' = "fit"
    /\ UNCHANGED <<blocks, tasks, availableTasks, assignments, blockIdx,
                   placements, run, firstResult>>
    /\ UNCHANGED notAllocVars

\* One iteration of `for (const task of eligibleTasks)`.
FitTask ==
    /\ apc = "fit"
    /\ taskIdx <= Len(eligibleTasks)
    /\ LET task == eligibleTasks[taskIdx]
           duration == DurationOf(task)
           placed == Fits(duration, remainingTime)
           left == IF placed THEN remainingTime - duration ELSE remainingTime
           pool == IF placed
                   THEN SpliceAt(availableTasks, FindIndex(availableTasks, task.id))
                   ELSE availableTasks
       IN /\ assignments' = IF placed THEN Append(assignments, task.id)
                            ELSE assignments
          /\ placements' = IF placed
                           THEN Append(placements,
                                    [task |-> task.id, block |-> blockIdx,
                                     duration |-> duration,
                                     remainingBefore |-> remainingTime])
                           ELSE placements
          /\ availableTasks' = pool
          /\ tasks' = IF placed THEN CallerTasksAfterSplice(tasks, pool) ELSE tasks
          /\ remainingTime' = left
          /\ IF ScanEnds(placed, left)
             THEN /\ apc' = "block"
                  /\ blockIdx' = blockIdx + 1
                  /\ taskIdx' = taskIdx
             ELSE /\ apc' = "fit"
                  /\ blockIdx' = blockIdx
                  /\ taskIdx' = taskIdx + 1
    /\ UNCHANGED <<blocks, eligibleTasks, run, firstResult>>
    /\ UNCHANGED notAllocVars

\* The eligible list is exhausted: on to the next block.
LeaveBlock ==
    /\ apc = "fit"
    /\ taskIdx > Len(eligibleTasks)
    /\ apc' = "block"
    /\ blockIdx' = blockIdx + 1
    /\ UNCHANGED <<blocks, tasks, availableTasks, eligibleTasks, assignments,
                   remainingTime, taskIdx, placements, run, firstResult>>
    /\ UNCHANGED notAllocVars

\* return assignments;
AllocReturn ==
    /\ apc = "block"
    /\ blockIdx > Len(blocks)
    /\ apc' = "done"
    /\ firstResult' = IF run = 1 THEN assignments ELSE firstResult
    /\ UNCHANGED <<blocks, tasks, availableTasks, eligibleTasks, assignments,
                   remainingTime, blockIdx, taskIdx, placements, run>>
    /\ UNCHANGED notAllocVars

\* The caller calls again with the arrays it still holds:
\* const assignments = []; const availableTasks = [...tasks];
AllocCallAgain ==
    /\ apc = "done"
    /\ run = 1
    /\ run' = 2
    /\ assignments' = <<>>
    /\ availableTasks' = tasks
    /\ placements' = <<>>
    /\ eligibleTasks' = <<>>
    /\ remainingTime' = 0
    /\ blockIdx' = 1
    /\ taskIdx' = 0
    /\ apc' = "block"
    /\ UNCHANGED <<blocks, tasks, firstResult>>
    /\ UNCHANGED notAllocVars

AllocNext ==
    \/ SkipLearningBlock
    \/ SkipShortBlock
    \/ EnterBlock
    \/ FitTask
    \/ LeaveBlock
    \/ AllocReturn
    \/ AllocCallAgain

----------------------------------------------------------------------------
(* generateSuggestions                                                     *)

\* Budgets the route lets through: 5..480.
Budgets == {5, 20, 60, 480}

\* deadline: the task has one; daysUntilDeadline: what
\* Math.ceil((deadline - Date.now()) / day) gives when the call is made.
SuggestKinds ==
    { [estimatedDuration |-> d, status |-> "INBOX", priority |-> 5,
       type |-> "ADMIN", deadline |-> FALSE, daysUntilDeadline |-> 0] :
          d \in {0, 5, 10, 60} }

SuggestWithIds(kinds) ==
    [i \in 1..Len(kinds) |->
        [id |-> i, estimatedDuration |-> kinds[i].estimatedDuration,
         status |-> kinds[i].status, priority |-> kinds[i].priority,
         type |-> kinds[i].type, deadline |-> kinds[i].deadline,
         daysUntilDeadline |-> kinds[i].daysUntilDeadline]]

\* Tasks for the justification: every priority band, deadline band and
\* type branch, with no estimate (30 minutes) or 10 minutes.
ReasoningKinds ==
    { [estimatedDuration |-> 0, status |-> "INBOX", priority |-> 8,
       type |-> "QUICK", deadline |-> TRUE, daysUntilDeadline |-> 1],
      [estimatedDuration |-> 0, status |-> "PLANNED", priority |-> 5,
       type |-> "DEEP_WORK", deadline |-> TRUE, daysUntilDeadline |-> 3],
      [estimatedDuration |-> 0, status |-> "INBOX", priority |-> 3,
       type |-> "ADMIN", deadline |-> FALSE, daysUntilDeadline |-> 0],
      [estimatedDuration |-> 10, status |-> "INBOX", priority |-> 3,
       type |-> "COURSE", deadline |-> TRUE, daysUntilDeadline |-> 7],
      [estimatedDuration |-> 10, status |-> "IN_PROGRESS", priority |-> 9,
       type |-> "DEEP_WORK", deadline |-> FALSE, daysUntilDeadline |-> 0] }

ReasoningLists ==
    { SuggestWithIds(k) :
        k \in UNION { [1..n -> ReasoningKinds] : n \in 1..MaxReasoningTasks } }

ReasoningBudgets == {20, 60}

Note(text) == [note |-> text, minutes |-> 0]

\* if (duration <= totalTime * 0.5) { ... } else if (duration === remainingTime)
DurationNotes(duration, remaining, total) ==
    IF 2 * duration <= total
    THEN << [note |-> "S'integre bien", minutes |-> duration] >>
    ELSE IF duration = remaining
         THEN << Note("Remplit parfaitement le temps restant") >>
         ELSE <<>>

\* generateReasoning(task, remainingTime, totalTime): the reasons in the
\* order they are pushed; join(', ') keeps them in that order, and an empty
\* list gives 'Tache disponible'.
generateReasoning(task, remaining, total) ==
    LET byPriority ==
            IF task.priority >= 8 THEN << Note("Haute priorite") >>
            ELSE IF task.priority >= 5 THEN << Note("Priorite moyenne") >>
            ELSE <<>>
        byDeadline ==
            IF ~task.deadline THEN <<>>
            ELSE IF task.daysUntilDeadline <= 1
                 THEN << Note("Deadline aujourd'hui/demain") >>
            ELSE IF task.daysUntilDeadline <= 3
                 THEN << Note("Deadline proche") >>
            ELSE <<>>
        byType ==
            IF task.type = "QUICK" THEN << Note("Tache rapide") >>
            ELSE IF task.type = "DEEP_WORK" /\ total >= 60
                 THEN << Note("Travail de fond") >>
            ELSE <<>>
        reasons == byPriority \o byDeadline \o byType
                   \o DurationNotes(DurationOf(task), remaining, total)
    IN IF Len(reasons) > 0 THEN reasons ELSE << Note("Tache disponible") >>

SuggestLists ==
    { SuggestWithIds(k) :
        k \in UNION { [1..n -> SuggestKinds] : n \in 1..MaxSuggestTasks } }

FittingTasksUnfiltered(ts, budget) == ts

\* duration <= availableMinutes, as a filter over the task list
FittingTasks(ts, budget) ==
    LET FitsBudget(task) == DurationOf(task) <= budget
    IN SelectSeq(ts, FitsBudget)

SuggestFitsWithRoomToSpare(duration, remaining) == duration < remaining

\* if (duration <= remainingTime)
SuggestFits(duration, remaining) == duration <= remaining

StopSuggestingUncapped(remaining, count) == remaining < MinUsefulMinutes

\* if (remainingTime < 5 || suggestions.length >= 5) break;
StopSuggesting(remaining, count) ==
    remaining < MinUsefulMinutes \/ count >= MaxSuggestions

SuggestIdle ==
    /\ sTasks = <<>>
    /\ availableMinutes = 0
    /\ fittingTasks = <<>>
    /\ suggestions = <<>>
    /\ sRemaining = 0
    /\ sIdx = 0
    /\ spc = "idle"

SuggestInit ==
    /\ sTasks \in SuggestLists
    /\ availableMinutes \in Budgets
    /\ fittingTasks = <<>>
    /\ suggestions = <<>>
    /\ sRemaining = 0
    /\ sIdx = 0
    /\ spc = "call"

\* The same call with the tasks and budgets of the justification.
SuggestReasoningInit ==
    /\ sTasks \in ReasoningLists
    /\ availableMinutes \in ReasoningBudgets
    /\ fittingTasks = <<>>
    /\ suggestions = <<>>
    /\ sRemaining = 0
    /\ sIdx = 0
    /\ spc = "call"

\* let remainingTime = availableMinutes; const fittingTasks = tasks.filter(...)
SuggestBegin ==
    /\ spc = "call"
    /\ suggestions' = <<>>
    /\ sRemaining' = availableMinutes
    /\ fittingTasks' = FittingTasks(sTasks, availableMinutes)
    /\ sIdx' = 1
    /\ spc' = "loop"
    /\ UNCHANGED <<sTasks, availableMinutes>>
    /\ UNCHANGED notSuggestVars

\* One iteration of `for (const task of fittingTasks)`.
SuggestStep ==
    /\ spc = "loop"
    /\ sIdx <= Len(fittingTasks)
    /\ LET task == fittingTasks[sIdx]
           duration == DurationOf(task)
           taken == SuggestFits(duration, sRemaining)
           left == IF taken THEN sRemaining - duration ELSE sRemaining
           out == IF taken
                  THEN Append(suggestions,
                           [id |-> task.id,
                            estimatedDuration |-> task.estimatedDuration,
                            reasoning |-> generateReasoning(task, sRemaining,
                                              availableMinutes),
                            remainingBefore |-> sRemaining])
                  ELSE suggestions
       IN /\ suggestions' = out
          /\ sRemaining' = left
          /\ IF StopSuggesting(left, Len(out))
             THEN spc' = "done" /\ sIdx' = sIdx
             ELSE spc' = "loop" /\ sIdx' = sIdx + 1
    /\ UNCHANGED <<sTasks, availableMinutes, fittingTasks>>
    /\ UNCHANGED notSuggestVars

\* The list is exhausted: return suggestions;
SuggestReturn ==
    /\ spc = "loop"
    /\ sIdx > Len(fittingTasks)
    /\ spc' = "done"
    /\ UNCHANGED <<sTasks, availableMinutes, fittingTasks, suggestions,
                   sRemaining, sIdx>>
    /\ UNCHANGED notSuggestVars

SuggestNext ==
    \/ SuggestBegin
    \/ SuggestStep
    \/ SuggestReturn

----------------------------------------------------------------------------
(* FreeTimeDetector.detectFreeSlotsFromEvents                              *)

\* Instants of the events handed to the detector; the window is 60..120.
GapInstants == {55, 60, 70, 85, 120, 125}
WindowStart == 60
WindowEnd == 120
MinDurations == {15, 25}

\* CalendarEvent invariant: end >= start.
GapEventKinds ==
    { e \in [start : GapInstants, end : GapInstants] : e.end >= e.start }

GapEventLists == UNION { [1..n -> GapEventKinds] : n \in 0..MaxEvents }

\* .filter((e) => e.start < dayEnd && e.end > dayStart)
InWindow(events, from, to) ==
    LET Overlaps(e) == e.start < to /\ e.end > from
    IN SelectSeq(events, Overlaps)

\* Array.prototype.sort((a, b) => a.start - b.start): stable, ascending.
RECURSIVE InsertByStart(_, _)
InsertByStart(sorted, e) ==
    IF sorted = <<>> THEN <<e>>
    ELSE IF Head(sorted).start <= e.start
         THEN <<Head(sorted)>> \o InsertByStart(Tail(sorted), e)
         ELSE <<e>> \o sorted

RECURSIVE SortByStartFrom(_, _)
SortByStartFrom(done, rest) ==
    IF rest = <<>> THEN done
    ELSE SortByStartFrom(InsertByStart(done, Head(rest)), Tail(rest))

SortByStartKeepsOrder(events) == events

SortByStart(events) == SortByStartFrom(<<>>, events)

GapLongEnoughStrict(gap, minimum) == gap > minimum

\* if (gapDuration >= minDurationMinutes)
GapLongEnough(gap, minimum) == gap >= minimum

\* { start: currentTime, end: ..., durationMinutes: Math.floor(gapDuration) }
MakeSlot(from, to) == [start |-> from, end |-> to, durationMinutes |-> to - from]

\* if (event.start > currentTime) { ... freeSlots.push(...) }
SlotsAfterGap(slots, cursor, to, minimum) ==
    IF to > cursor /\ GapLongEnough(to - cursor, minimum)
    THEN Append(slots, MakeSlot(cursor, to))
    ELSE slots

AdvanceCursorToStart(cursor, event) ==
    IF event.start > cursor THEN event.start ELSE cursor

\* if (event.end > currentTime) currentTime = event.end;
AdvanceCursor(cursor, event) ==
    IF event.end > cursor THEN event.end ELSE cursor

\* The loop of detectFreeSlotsFromEvents from event i on, then the trailing
\* `if (currentTime < dayEnd)` slot; the steps are those of GapStep and GapTail.
RECURSIVE FreeSlotsFrom(_, _, _, _, _, _)
FreeSlotsFrom(sorted, i, cursor, slots, to, minimum) ==
    IF i > Len(sorted)
    THEN SlotsAfterGap(slots, cursor, to, minimum)
    ELSE FreeSlotsFrom(sorted, i + 1, AdvanceCursor(cursor, sorted[i]),
                       SlotsAfterGap(slots, cursor, sorted[i].start, minimum),
                       to, minimum)

\* detectFreeSlotsFromEvents(events, dayStart, dayEnd, minDurationMinutes),
\* as one value.
detectFreeSlotsFromEvents(events, from, to, minimum) ==
    FreeSlotsFrom(SortByStart(InWindow(events, from, to)), 1, from, <<>>,
                  to, minimum)

\* minDurationMinutes: number = 15
DefaultMinDuration == 15

GapIdle ==
    /\ gEvents = <<>>
    /\ dayStart = 0
    /\ dayEnd = 0
    /\ minDurationMinutes = 0
    /\ sortedEvents = <<>>
    /\ currentTime = 0
    /\ freeSlots = <<>>
    /\ gIdx = 0
    /\ gpc = "idle"

GapInit ==
    /\ gEvents \in GapEventLists
    /\ dayStart = WindowStart
    /\ dayEnd = WindowEnd
    /\ minDurationMinutes \in MinDurations
    /\ sortedEvents = <<>>
    /\ currentTime = 0
    /\ freeSlots = <<>>
    /\ gIdx = 0
    /\ gpc = "call"

\* const freeSlots = []; const sortedEvents = ...; let currentTime = dayStart;
GapBegin ==
    /\ gpc = "call"
    /\ freeSlots' = <<>>
    /\ sortedEvents' = SortByStart(InWindow(gEvents, dayStart, dayEnd))
    /\ currentTime' = dayStart
    /\ gIdx' = 1
    /\ gpc' = "loop"
    /\ UNCHANGED <<gEvents, dayStart, dayEnd, minDurationMinutes>>
    /\ UNCHANGED notGapVars

\* One iteration of `for (const event of sortedEvents)`.
GapStep ==
    /\ gpc = "loop"
    /\ gIdx <= Len(sortedEvents)
    /\ LET event == sortedEvents[gIdx]
       IN /\ freeSlots' = SlotsAfterGap(freeSlots, currentTime, event.start,
                                        minDurationMinutes)
          /\ currentTime' = AdvanceCursor(currentTime, event)
    /\ gIdx' = gIdx + 1
    /\ UNCHANGED <<gEvents, dayStart, dayEnd, minDurationMinutes,
                   sortedEvents, gpc>>
    /\ UNCHANGED notGapVars

\* if (currentTime < dayEnd) { ... }  return freeSlots;
GapTail ==
    /\ gpc = "loop"
    /\ gIdx > Len(sortedEvents)
    /\ freeSlots' = SlotsAfterGap(freeSlots, currentTime, dayEnd,
                                  minDurationMinutes)
    /\ gpc' = "done"
    /\ UNCHANGED <<gEvents, dayStart, dayEnd, minDurationMinutes,
                   sortedEvents, currentTime, gIdx>>
    /\ UNCHANGED notGapVars

GapNext ==
    \/ GapBegin
    \/ GapStep
    \/ GapTail

----------------------------------------------------------------------------
(* analyzeCalendar and classifyEvent                                       *)

\* Text is a sequence of characters.
LowerCaseLetters ==
    <<"a", "b", "c", "d", "e", "f", "g", "h", "i", "j", "k", "l", "m",
      "n", "o", "p", "q", "r", "s", "t", "u", "v", "w", "x", "y", "z">>

UpperCaseLetters ==
    <<"A", "B", "C", "D", "E", "F", "G", "H", "I", "J", "K", "L", "M",
      "N", "O", "P", "Q", "R", "S", "T", "U", "V", "W", "X", "Y", "Z">>

UpperOf(ch) ==
    IF \E i \in 1..26 : LowerCaseLetters[i] = ch
    THEN UpperCaseLetters[CHOOSE i \in 1..26 : LowerCaseLetters[i] = ch]
    ELSE ch

\* String.prototype.toUpperCase
ToUpperCase(text) == [i \in 1..Len(text) |-> UpperOf(text[i])]

\* String.prototype.includes
Includes(text, part) ==
    \E i \in 1..(Len(text) - Len(part) + 1) :
        SubSeq(text, i, i + Len(part) - 1) = part

LearningMarkers ==
    { <<"H", "Y", "P">>,
      <<"R", "O", "L", "L", "A", "N", "D", "-", "B", "E", "R", "T", "R", "A", "N", "D">>,
      <<"C", "O", "U", "R", "S">> }

WorkMarkers ==
    { <<"A", "L", "T", "E", "R", "N", "A", "N", "C", "E">>,
      <<"T", "R", "A", "V", "A", "I", "L">>,
      <<"W", "O", "R", "K">> }

\* The enabled calendars of the user: a work calendar and a private one.
\* Events may also come from a calendar that is no longer enabled.
EnabledCalendars ==
    << [calendarId |-> <<"c", "1">>, label |-> <<"W", "o", "r", "k">>],
       [calendarId |-> <<"c", "2">>, label |-> <<"P", "e", "r", "s", "o">>] >>

EventCalendarIds == { <<"c", "1">>, <<"c", "2">>, <<"h", "y", "p">> }

\* calendarMap.get(calendarId) || ''
LabelOf(calendars, calendarId) ==
    LET hits == { i \in 1..Len(calendars) : calendars[i].calendarId = calendarId }
    IN IF hits = {} THEN <<>>
       ELSE calendars[CHOOSE i \in hits : \A j \in hits : j <= i].label

classifyEventWorkFirst(event, calendars) ==
    LET labelOrId ==
            ToUpperCase(LabelOf(calendars, event.calendarId) \o <<" ">>
                        \o event.calendarId)
    IN IF \E m \in WorkMarkers : Includes(labelOrId, m) THEN "WORK"
       ELSE IF \E m \in LearningMarkers : Includes(labelOrId, m) THEN "LEARNING"
       ELSE "FREE"

classifyEvent(event, calendars) ==
    LET labelOrId ==
            ToUpperCase(LabelOf(calendars, event.calendarId) \o <<" ">>
                        \o event.calendarId)
    IN IF \E m \in LearningMarkers : Includes(labelOrId, m) THEN "LEARNING"
       ELSE IF \E m \in WorkMarkers : Includes(labelOrId, m) THEN "WORK"
       ELSE "FREE"

\* Calendars for the classification alone: labels and ids with a work
\* marker, a learning marker or none, in lower, upper and mixed case.
ClassifyIds == { <<"c", "1">>, <<"c", "2">>, <<"h", "y", "p">>, <<"T", "r", "a", "v", "a", "i", "l">> }

ClassifyLabels == { <<"W", "o", "r", "k">>, <<"P", "e", "r", "s", "o">>, <<"C", "O", "U", "R", "S">> }

ClassifyCalendarKinds == [calendarId : ClassifyIds, label : ClassifyLabels]

ClassifyCalendarLists ==
    UNION { [1..n -> ClassifyCalendarKinds] : n \in 1..MaxCalendars }

\* Date.prototype.setHours(h, 0, 0, 0): hour h of the date's own day.
SetHours(instant, h) == (instant \div MinutesPerDay) * MinutesPerDay + h * 60

\* The route fetches the events starting today: today <= startTime < tomorrow.
DayInstants == {450, 480, 495, 540, 600, 1400}

DayEventKinds ==
    { e \in [startTime : DayInstants, endTime : DayInstants,
             calendarId : EventCalendarIds, summary : {"event"}] :
        e.endTime >= e.startTime }

DayEventLists == UNION { [1..n -> DayEventKinds] : n \in 1..MaxDayEvents }

\* [...events].sort((a, b) => a.startTime.getTime() - b.startTime.getTime())
RECURSIVE InsertByStartTime(_, _)
InsertByStartTime(sorted, e) ==
    IF sorted = <<>> THEN <<e>>
    ELSE IF Head(sorted).startTime <= e.startTime
         THEN <<Head(sorted)>> \o InsertByStartTime(Tail(sorted), e)
         ELSE <<e>> \o sorted

RECURSIVE SortByStartTimeFrom(_, _)
SortByStartTimeFrom(done, rest) ==
    IF rest = <<>> THEN done
    ELSE SortByStartTimeFrom(InsertByStartTime(done, Head(rest)), Tail(rest))

SortByStartTime(events) == SortByStartTimeFrom(<<>>, events)

\* currentTime < to && to.getTime() - currentTime.getTime() > 15 * 60 * 1000
IsFreeGap(cursor, to) == cursor < to /\ to - cursor > FreeGapMinutes

\* A block without eventSummary carries "none".
FreeBlock(from, to) ==
    [start |-> from, end |-> to, context |-> "FREE", eventSummary |-> "none"]

EventBlock(event, calendars) ==
    [start |-> event.startTime, end |-> event.endTime,
     context |-> classifyEvent(event, calendars),
     eventSummary |-> event.summary]

CalIdle ==
    /\ cEvents = <<>>
    /\ userCalendars = <<>>
    /\ today = 0
    /\ tomorrow = 0
    /\ cSorted = <<>>
    /\ cCurrent = 0
    /\ endTime = 0
    /\ timeBlocks = <<>>
    /\ cIdx = 0
    /\ cpc = "idle"

\* analyzeCalendar(events, userCalendars, today, tomorrow) on entry to its
\* loop: currentTime at 8am of dayStart, endTime at 11pm of dayEnd.
CalInit ==
    /\ cEvents \in DayEventLists
    /\ userCalendars = EnabledCalendars
    /\ today = 0
    /\ tomorrow = today + MinutesPerDay
    /\ cSorted = SortByStartTime(cEvents)
    /\ cCurrent = SetHours(today, DayStartHour)
    /\ endTime = SetHours(tomorrow, DayEndHour)
    /\ timeBlocks = <<>>
    /\ cIdx = 1
    /\ cpc = "loop"

\* The same entry for one event 09:00-10:00 of a calendar out of
\* ClassifyIds, under every list of enabled calendars of ClassifyCalendarLists.
CalClassifyInit ==
    /\ \E id \in ClassifyIds :
           cEvents = << [startTime |-> 540, endTime |-> 600,
                         calendarId |-> id, summary |-> "event"] >>
    /\ userCalendars \in ClassifyCalendarLists
    /\ today = 0
    /\ tomorrow = today + MinutesPerDay
    /\ cSorted = SortByStartTime(cEvents)
    /\ cCurrent = SetHours(today, DayStartHour)
    /\ endTime = SetHours(tomorrow, DayEndHour)
    /\ timeBlocks = <<>>
    /\ cIdx = 1
    /\ cpc = "loop"

\* One iteration of `for (const event of sortedEvents)`.
CalStep ==
    /\ cpc = "loop"
    /\ cIdx <= Len(cSorted)
    /\ LET event == cSorted[cIdx]
           withGap == IF IsFreeGap(cCurrent, event.startTime)
                      THEN Append(timeBlocks, FreeBlock(cCurrent, event.startTime))
                      ELSE timeBlocks
       IN /\ timeBlocks' = Append(withGap, EventBlock(event, userCalendars))
          /\ cCurrent' = event.endTime
    /\ cIdx' = cIdx + 1
    /\ UNCHANGED <<cEvents, userCalendars, today, tomorrow, cSorted, endTime, cpc>>
    /\ UNCHANGED notCalVars

\* Add remaining time as FREE if there's any left; return blocks;
CalTail ==
    /\ cpc = "loop"
    /\ cIdx > Len(cSorted)
    /\ timeBlocks' = IF IsFreeGap(cCurrent, endTime)
                     THEN Append(timeBlocks, FreeBlock(cCurrent, endTime))
                     ELSE timeBlocks
    /\ cpc' = "done"
    /\ UNCHANGED <<cEvents, userCalendars, today, tomorrow, cSorted, cCurrent,
                   endTime, cIdx>>
    /\ UNCHANGED notCalVars

CalNext ==
    \/ CalStep
    \/ CalTail

----------------------------------------------------------------------------
(* FreeTimeDetector.detectFreeSlots, convertAllDayEvent,                   *)
(* suggestTasksForSlots                                                    *)

\* Day 0 of the model is a Monday.
Weekdays ==
    <<"Monday", "Tuesday", "Wednesday", "Thursday", "Friday", "Saturday",
      "Sunday">>

\* The values Intl.DateTimeFormat accepts for its `weekday` option.
WeekdayStyles == {"narrow", "short", "long"}

\* date.toLocaleDateString('en-US', { weekday: style }): any other value of
\* the option raises a RangeError; "long" gives the day's English name (the
\* abbreviated styles are not modelled apart from it).
toLocaleDateString(instant, style) ==
    IF style \notin WeekdayStyles
    THEN "RangeError"
    ELSE Weekdays[((instant \div MinutesPerDay) % 7) + 1]

Digits == <<"0", "1", "2", "3", "4", "5", "6", "7", "8", "9">>

DigitOf(ch) == (CHOOSE d \in 1..10 : Digits[d] = ch) - 1

\* Number("09") = 9
RECURSIVE NumberOf(_)
NumberOf(text) ==
    IF text = <<>> THEN 0
    ELSE 10 * NumberOf(SubSeq(text, 1, Len(text) - 1))
         + DigitOf(text[Len(text)])

\* "HH:MM".split(':').map(Number)
SplitTime(text) ==
    LET colon == CHOOSE i \in 1..Len(text) : text[i] = ":"
    IN << NumberOf(SubSeq(text, 1, colon - 1)),
          NumberOf(SubSeq(text, colon + 1, Len(text))) >>

\* date.setHours(h, m, 0, 0)
SetHoursAndMinutes(instant, h, m) ==
    (instant \div MinutesPerDay) * MinutesPerDay + h * 60 + m

NineOClock == <<"0", "9", ":", "0", "0">>
FiveOClock == <<"1", "7", ":", "0", "0">>
MondaySchedule ==
    [d \in {"monday"} |->
        [start |-> <<"1", "0", ":", "3", "0">>,
         end |-> <<"1", "2", ":", "0", "0">>]]

\* The user's calendar configurations: one that expands all-day events, with
\* an override for Mondays, and one with the same schedule but the flag off.
\* No configuration exists for the calendar "other".
CalendarConfigs ==
    << [calendarId |-> "work", treatAllDayAsSchedule |-> TRUE,
        defaultStartTime |-> NineOClock, defaultEndTime |-> FiveOClock,
        schedulePerDay |-> MondaySchedule],
       [calendarId |-> "perso", treatAllDayAsSchedule |-> FALSE,
        defaultStartTime |-> NineOClock, defaultEndTime |-> FiveOClock,
        schedulePerDay |-> MondaySchedule] >>

DetectCalendarIds == {"work", "perso", "other"}

\* All-day events of day 0 (Monday) and day 1 (Tuesday), from midnight to
\* midnight, and two timed events of day 0: 08:20-10:00 and 10:00-11:00.
DetectEventKinds ==
    { [start |-> d * MinutesPerDay, end |-> (d + 1) * MinutesPerDay,
       isAllDay |-> TRUE, calendarId |-> c] :
          d \in {0, 1}, c \in DetectCalendarIds }
    \cup
    { [start |-> t[1], end |-> t[2], isAllDay |-> FALSE, calendarId |-> c] :
          t \in {<<500, 600>>, <<600, 660>>}, c \in DetectCalendarIds }

DetectEventLists ==
    UNION { [1..n -> DetectEventKinds] : n \in 0..MaxAllDayEvents }

\* Tasks offered to the slots: without estimate, 15 and 60 minutes.
SlotTaskKinds == { [estimatedDuration |-> d] : d \in {0, 15, 60} }

SlotTaskLists ==
    UNION { { [i \in 1..n |-> [id |-> i,
                                estimatedDuration |-> f[i].estimatedDuration]] :
                f \in [1..n -> SlotTaskKinds] } : n \in 1..MaxSlotTasks }

\* configs.find((c) => c.calendarId === event.calendarId): its position, 0
\* for undefined.
FindConfig(cfgs, calendarId) ==
    IF \E i \in 1..Len(cfgs) : cfgs[i].calendarId = calendarId
    THEN CHOOSE i \in 1..Len(cfgs) :
             /\ cfgs[i].calendarId = calendarId
             /\ \A j \in 1..(i - 1) : cfgs[j].calendarId # calendarId
    ELSE 0

ReturnsAsIsOnlyIfBoth(event, config) ==
    ~event.isAllDay /\ ~config.treatAllDayAsSchedule

\* if (!event.isAllDay || !config.treatAllDayAsSchedule)
ReturnsAsIs(event, config) ==
    ~event.isAllDay \/ ~config.treatAllDayAsSchedule

\* convertAllDayEvent(event, config): the pair it returns, or threw = TRUE
\* when toLocaleDateString raises.
convertAllDayEvent(event, config) ==
    IF ReturnsAsIs(event, config)
    THEN [threw |-> FALSE, start |-> event.start, end |-> event.end]
    ELSE LET dayName == toLocaleDateString(event.start, "lowercase")
         IN IF dayName = "RangeError"
            THEN [threw |-> TRUE, start |-> event.start, end |-> event.end]
            ELSE LET schedule ==
                         IF dayName \in DOMAIN config.schedulePerDay
                         THEN config.schedulePerDay[dayName]
                         ELSE [start |-> config.defaultStartTime,
                               end |-> config.defaultEndTime]
                     s == SplitTime(schedule.start)
                     e == SplitTime(schedule.end)
                 IN [threw |-> FALSE,
                     start |-> SetHoursAndMinutes(event.start, s[1], s[2]),
                     end |-> SetHoursAndMinutes(event.start, e[1], e[2])]

\* task.estimatedDuration && task.estimatedDuration <= slot.durationMinutes
IsSuitable(task, slot) ==
    /\ task.estimatedDuration # 0
    /\ task.estimatedDuration <= slot.durationMinutes

\* freeSlots.map((slot) => ({ slot, tasks: tasks.filter(...) }))
suggestTasksForSlots(slots, ts) ==
    [i \in 1..Len(slots) |->
        LET Suits(task) == IsSuitable(task, slots[i])
        IN [slot |-> slots[i], tasks |-> SelectSeq(ts, Suits)]]

DetectIdle ==
    /\ dEvents = <<>>
    /\ configs = <<>>
    /\ processedEvents = <<>>
    /\ dIdx = 0
    /\ slotTasks = <<>>
    /\ slotSuggestions = <<>>
    /\ dpc = "idle"

\* detectFreeSlots(events, configs, dayStart, dayEnd) for 08:00..23:00 of
\* day 0 with the default minDurationMinutes, on entry to events.map.
DetectInit ==
    /\ dEvents \in DetectEventLists
    /\ configs = CalendarConfigs
    /\ processedEvents = <<>>
    /\ dIdx = 1
    /\ slotTasks \in SlotTaskLists
    /\ slotSuggestions = <<>>
    /\ dpc = "map"
    /\ gEvents = <<>>
    /\ dayStart = SetHours(0, DayStartHour)
    /\ dayEnd = SetHours(0, DayEndHour)
    /\ minDurationMinutes = DefaultMinDuration
    /\ sortedEvents = <<>>
    /\ currentTime = 0
    /\ freeSlots = <<>>
    /\ gIdx = 0
    /\ gpc = "idle"

\* One call of the events.map callback that returns.
DetectMapEvent ==
    /\ dpc = "map"
    /\ dIdx <= Len(dEvents)
    /\ LET event == dEvents[dIdx]
           c == FindConfig(configs, event.calendarId)
       IN IF c = 0
          THEN processedEvents' = Append(processedEvents, event)
          ELSE LET r == convertAllDayEvent(event, configs[c])
               IN /\ ~r.threw
                  /\ processedEvents' =
                         Append(processedEvents,
                                [event EXCEPT !.start = r.start,
                                              !.end = r.end])
    /\ dIdx' = dIdx + 1
    /\ UNCHANGED <<dEvents, configs, slotTasks, slotSuggestions, dpc>>
    /\ UNCHANGED gapVars
    /\ UNCHANGED notDetectVars

\* The callback's convertAllDayEvent raises: detectFreeSlots ends with the
\* exception and returns nothing.
DetectMapThrows ==
    /\ dpc = "map"
    /\ dIdx <= Len(dEvents)
    /\ LET event == dEvents[dIdx]
           c == FindConfig(configs, event.calendarId)
       IN /\ c # 0
          /\ convertAllDayEvent(event, configs[c]).threw
    /\ dpc' = "threw"
    /\ UNCHANGED <<dEvents, configs, processedEvents, dIdx, slotTasks,
                   slotSuggestions>>
    /\ UNCHANGED gapVars
    /\ UNCHANGED notDetectVars

\* return this.detectFreeSlotsFromEvents(processedEvents, dayStart, dayEnd,
\*                                       minDurationMinutes)
DetectCallInner ==
    /\ dpc = "map"
    /\ dIdx > Len(dEvents)
    /\ gEvents' = processedEvents
    /\ gpc' = "call"
    /\ dpc' = "slots"
    /\ UNCHANGED <<dEvents, configs, processedEvents, dIdx, slotTasks,
                   slotSuggestions>>
    /\ UNCHANGED <<dayStart, dayEnd, minDurationMinutes, sortedEvents,
                   currentTime, freeSlots, gIdx>>
    /\ UNCHANGED notDetectVars

\* suggestTasksForSlots(freeSlots, tasks) on the slots detectFreeSlots
\* returned.
SuggestForSlots ==
    /\ dpc = "slots"
    /\ gpc = "done"
    /\ slotSuggestions' = suggestTasksForSlots(freeSlots, slotTasks)
    /\ dpc' = "done"
    /\ UNCHANGED <<dEvents, configs, processedEvents, dIdx, slotTasks>>
    /\ UNCHANGED gapVars
    /\ UNCHANGED notDetectVars

DetectNext ==
    \/ DetectMapEvent
    \/ DetectMapThrows
    \/ DetectCallInner
    \/ GapBegin
    \/ GapStep
    \/ GapTail
    \/ SuggestForSlots

----------------------------------------------------------------------------
(* GeminiRateLimiter and the route handlers that use it                    *)

MAX_PER_MINUTE == 15
MAX_PER_DAY == 1500

\* Date.now() is counted in seconds; a minute is 60 of them, a day 86400.
MinuteSeconds == 60
DaySeconds == 86400
TickSeconds == 30

Handlers == 1..MaxHandlers

\* getCurrentDate(): the day of the clock.
getCurrentDate(clock) == clock \div DaySeconds

\* What the limiter holds when the requests arrive: nothing, or the stamps
\* of 14 or 15 requests recorded ten seconds ago, and a daily counter that
\* counts them, possibly close to the daily limit.
LimiterHistories ==
    { [recent |-> 0, today |-> 0], [recent |-> 14, today |-> 14],
      [recent |-> 15, today |-> 15], [recent |-> 0, today |-> 1499],
      [recent |-> 14, today |-> 1499], [recent |-> 0, today |-> 1500] }

\* The requests arrive at noon or half a minute before midnight.
ArrivalClocks == { DaySeconds \div 2, DaySeconds - TickSeconds }

\* requestsPerMinute.filter(timestamp => timestamp > oneMinuteAgo)
cleanOldRequests(stamps, clock) ==
    LET IsRecent(timestamp) == timestamp > clock - MinuteSeconds
    IN SelectSeq(stamps, IsRecent)

\* checkDayReset(): the daily counter after it.
checkDayReset(counter, date, clock) ==
    IF date # getCurrentDate(clock) THEN 0 ELSE counter

\* The two tests of checkLimit, on the cleaned data.
IsAllowed(stamps, counter) ==
    ~(Len(stamps) >= MAX_PER_MINUTE) /\ ~(counter >= MAX_PER_DAY)

LimiterIdle ==
    /\ requestsPerMinute = <<>>
    /\ requestsPerDay = 0
    /\ currentDate = 0
    /\ now = 0
    /\ ticks = 0
    /\ hpc = <<>>

\* MaxHandlers requests have reached their handlers; none has run yet.
LimiterInit ==
    /\ now \in ArrivalClocks
    /\ \E h \in LimiterHistories :
           /\ requestsPerMinute = [i \in 1..h.recent |-> now - 10]
           /\ requestsPerDay = h.today
    /\ currentDate = getCurrentDate(now)
    /\ ticks = 0
    /\ hpc = [h \in Handlers |-> "start"]

\* const limitCheck = await geminiRateLimiter.checkLimit(); allowed: the
\* handler goes on to the model call.
HandlerAdmitted(h) ==
    /\ hpc[h] = "start"
    /\ LET stamps == cleanOldRequests(requestsPerMinute, now)
           counter == checkDayReset(requestsPerDay, currentDate, now)
       IN /\ IsAllowed(stamps, counter)
          /\ requestsPerMinute' = stamps
          /\ requestsPerDay' = counter
    /\ currentDate' = getCurrentDate(now)
    /\ hpc' = [hpc EXCEPT ![h] = "calling"]
    /\ UNCHANGED <<now, ticks>>
    /\ UNCHANGED notLimiterVars

\* checkLimit() answers allowed: false and the handler replies 429.
HandlerRejected(h) ==
    /\ hpc[h] = "start"
    /\ LET stamps == cleanOldRequests(requestsPerMinute, now)
           counter == checkDayReset(requestsPerDay, currentDate, now)
       IN /\ ~IsAllowed(stamps, counter)
          /\ requestsPerMinute' = stamps
          /\ requestsPerDay' = counter
    /\ currentDate' = getCurrentDate(now)
    /\ hpc' = [hpc EXCEPT ![h] = "rejected"]
    /\ UNCHANGED <<now, ticks>>
    /\ UNCHANGED notLimiterVars

\* The awaited model call has settled, with a result or with an error:
\* await geminiRateLimiter.recordRequest();
HandlerRecords(h) ==
    /\ hpc[h] = "calling"
    /\ requestsPerMinute' = Append(requestsPerMinute, now)
    /\ requestsPerDay' = requestsPerDay + 1
    /\ hpc' = [hpc EXCEPT ![h] = "done"]
    /\ UNCHANGED <<currentDate, now, ticks>>
    /\ UNCHANGED notLimiterVars

\* Time passes while handlers wait.
ClockTick ==
    /\ ticks < MaxTicks
    /\ now' = now + TickSeconds
    /\ ticks' = ticks + 1
    /\ UNCHANGED <<requestsPerMinute, requestsPerDay, currentDate, hpc>>
    /\ UNCHANGED notLimiterVars

LimiterNext ==
    \/ \E h \in Handlers : HandlerAdmitted(h)
    \/ \E h \in Handlers : HandlerRejected(h)
    \/ \E h \in Handlers : HandlerRecords(h)
    \/ ClockTick

----------------------------------------------------------------------------
(* Specifications, one per operation                                       *)

Init ==
    AllocInit /\ SuggestIdle /\ GapIdle /\ CalIdle /\ DetectIdle /\ LimiterIdle

Next == AllocNext

\* assignTasksToBlocks, called twice by the same caller
Spec == Init /\ [][Next]_vars

ExampleInit ==
    AllocExampleInit /\ SuggestIdle /\ GapIdle /\ CalIdle /\ DetectIdle
    /\ LimiterIdle

ExampleNext == AllocNext

\* assignTasksToBlocks on the inputs of the worked example
SpecExample == ExampleInit /\ [][ExampleNext]_vars

\* Both functions handed the same pool, which may hold COMPLETED tasks.
AnyStatusInit ==
    /\ blocks \in ExampleBlockLists
    /\ tasks \in AnyStatusTaskLists
    /\ availableTasks = tasks
    /\ eligibleTasks = <<>>
    /\ assignments = <<>>
    /\ remainingTime = 0
    /\ blockIdx = 1
    /\ taskIdx = 0
    /\ placements = <<>>
    /\ run = 1
    /\ firstResult = <<>>
    /\ apc = "block"
    /\ sTasks = AsSuggestTasks(tasks)
    /\ availableMinutes \in AnyStatusBudgets
    /\ fittingTasks = <<>>
    /\ suggestions = <<>>
    /\ sRemaining = 0
    /\ sIdx = 0
    /\ spc = "call"
    /\ GapIdle /\ CalIdle /\ DetectIdle
    /\ LimiterIdle

AnyStatusNext == AllocNext \/ SuggestNext

\* assignTasksToBlocks and generateSuggestions on a pool of any status
SpecAnyStatus == AnyStatusInit /\ [][AnyStatusNext]_vars

ReasoningSpecInit ==
    SuggestReasoningInit /\ AllocIdle /\ GapIdle /\ CalIdle /\ DetectIdle
    /\ LimiterIdle

ReasoningSpecNext == SuggestNext

\* generateSuggestions with generateReasoning
SpecReasoning == ReasoningSpecInit /\ [][ReasoningSpecNext]_vars

SuggestSpecInit ==
    SuggestInit /\ AllocIdle /\ GapIdle /\ CalIdle /\ DetectIdle
    /\ LimiterIdle

SuggestSpecNext == SuggestNext

\* generateSuggestions
SpecSuggest == SuggestSpecInit /\ [][SuggestSpecNext]_vars

GapSpecInit ==
    GapInit /\ AllocIdle /\ SuggestIdle /\ CalIdle /\ DetectIdle
    /\ LimiterIdle

GapSpecNext == GapNext

\* FreeTimeDetector.detectFreeSlotsFromEvents
SpecGaps == GapSpecInit /\ [][GapSpecNext]_vars

CalSpecInit ==
    CalInit /\ AllocIdle /\ SuggestIdle /\ GapIdle /\ DetectIdle
    /\ LimiterIdle

CalSpecNext == CalNext

\* analyzeCalendar
SpecCalendar == CalSpecInit /\ [][CalSpecNext]_vars

ClassifySpecInit ==
    CalClassifyInit /\ AllocIdle /\ SuggestIdle /\ GapIdle /\ DetectIdle
    /\ LimiterIdle

ClassifySpecNext == CalNext

\* analyzeCalendar classifying one event
SpecClassify == ClassifySpecInit /\ [][ClassifySpecNext]_vars

LimiterSpecInit ==
    LimiterInit /\ AllocIdle /\ SuggestIdle /\ GapIdle /\ CalIdle
    /\ DetectIdle

LimiterSpecNext == LimiterNext

\* Route handlers sharing the one GeminiRateLimiter
SpecLimiter == LimiterSpecInit /\ [][LimiterSpecNext]_vars

DetectSpecInit ==
    DetectInit /\ AllocIdle /\ SuggestIdle /\ CalIdle /\ LimiterIdle

DetectSpecNext == DetectNext

\* detectFreeSlots, then suggestTasksForSlots on its result
SpecDetect == DetectSpecInit /\ [][DetectSpecNext]_vars

----------------------------------------------------------------------------
(* Properties of assignTasksToBlocks                                       *)

\* The caller's task with this id (ids are positions in the caller's list).
TaskById(id) == tasks[FindIndex(tasks, id)]

PlacementsIn(b) == { i \in 1..Len(placements) : placements[i].block = b }

RECURSIVE SumDurations(_)
SumDurations(idxs) ==
    IF idxs = {} THEN 0
    ELSE LET i == CHOOSE x \in idxs : TRUE
         IN placements[i].duration + SumDurations(idxs \ {i})

\* C1: the returned list holds each task id at most once, and a placed task
\* has left the candidate pool, so no later block can take it again.
C1_EachTaskPlacedOnce ==
    /\ \A i, j \in 1..Len(assignments) :
           i # j => assignments[i] # assignments[j]
    /\ apc \in {"block", "fit"} =>
           \A i \in 1..Len(assignments) :
               FindIndex(availableTasks, assignments[i]) = 0

\* A task went into the first block and the second block, which accepts the
\* same tasks, was filled too.
C1_Witness ==
    /\ apc = "done"
    /\ Len(blocks) >= 2
    /\ blocks[1].context = "FREE"
    /\ blocks[2].context = "FREE"
    /\ PlacementsIn(1) # {}
    /\ PlacementsIn(2) # {}

\* C2: every placement fits what was left of its block when it was made
\* (duration = estimatedDuration or 30), so no block holds more minutes of
\* tasks than it lasts and the running remainder never goes below zero.
C2_PlacementsFitCapacity ==
    /\ \A i \in 1..Len(placements) :
           /\ placements[i].duration = DurationOf(TaskById(placements[i].task))
           /\ placements[i].duration <= placements[i].remainingBefore
    /\ \A b \in 1..Len(blocks) :
           SumDurations(PlacementsIn(b)) <= BlockDuration(blocks[b])
    /\ apc = "fit" => remainingTime >= 0

\* A block filled to the last minute by two tasks, one without estimate.
C2_Witness ==
    /\ apc = "block"
    /\ blockIdx = 2
    /\ remainingTime = 0
    /\ Cardinality(PlacementsIn(1)) = 2
    /\ \E i \in PlacementsIn(1) :
           TaskById(placements[i].task).estimatedDuration = 0

AtLearningBlock ==
    /\ apc = "block"
    /\ blockIdx <= Len(blocks)
    /\ blocks[blockIdx].context = "LEARNING"

\* C3: a LEARNING (obligation) block is skipped in one step that places
\* nothing and leaves the pool as it was; no placement is ever made while
\* the block at hand is a LEARNING block.
C3_LearningBlockSkipped ==
    [][ /\ AtLearningBlock =>
             /\ apc' = "block"
             /\ blockIdx' = blockIdx + 1
             /\ availableTasks' = availableTasks
             /\ assignments' = assignments
             /\ placements' = placements
        /\ Len(placements') > Len(placements) =>
             /\ blockIdx \in 1..Len(blocks)
             /\ blocks[blockIdx].context # "LEARNING" ]_vars

\* A LEARNING block has just been passed with tasks still in the pool,
\* among them a learning task.
C3_Witness ==
    /\ apc = "block"
    /\ blockIdx > 1
    /\ blocks[blockIdx - 1].context = "LEARNING"
    /\ \E i \in 1..Len(availableTasks) : availableTasks[i].context = "LEARNING"
    /\ assignments = <<>>

\* C4: a task placed in a FREE block is PERSONAL or LEARNING, never WORK;
\* a task placed in a WORK block is WORK or PERSONAL, never LEARNING.
C4_PlacementsRespectAffinity ==
    \A i \in 1..Len(placements) :
        LET ctx == blocks[placements[i].block].context
            aff == TaskById(placements[i].task).context
        IN /\ ctx = "FREE" => aff \in {"PERSONAL", "LEARNING"}
           /\ ctx = "WORK" => aff \in {"WORK", "PERSONAL"}
           /\ ctx \in {"FREE", "WORK"}

\* All blocks done: a PERSONAL task sits in a WORK block, and a WORK task
\* sits in a WORK block although an earlier FREE block had room left for it.
C4_Witness ==
    /\ apc = "done"
    /\ \E i \in 1..Len(placements) :
           /\ blocks[placements[i].block].context = "WORK"
           /\ TaskById(placements[i].task).context = "PERSONAL"
    /\ \E i \in 1..Len(placements), b \in 1..Len(blocks) :
           /\ blocks[placements[i].block].context = "WORK"
           /\ TaskById(placements[i].task).context = "WORK"
           /\ b < placements[i].block
           /\ blocks[b].context = "FREE"
           /\ BlockDuration(blocks[b]) - SumDurations(PlacementsIn(b)) >= MinBlockMinutes
           /\ placements[i].duration
                  <= BlockDuration(blocks[b]) - SumDurations(PlacementsIn(b))

\* C6: the same call repeated with the arrays the caller still holds
\* returns the same id list, in the same order.
C6_RepeatedCallSameResult ==
    (run = 2 /\ apc = "done") => assignments = firstResult

\* The second call has returned, and the first one had placed two tasks.
C6_Witness ==
    /\ run = 2
    /\ apc = "done"
    /\ Len(firstResult) >= 2
    /\ Len(firstResult) < Len(tasks)

----------------------------------------------------------------------------
(* Properties of generateSuggestions                                       *)

SuggestedDurations ==
    [i \in 1..Len(suggestions) |->
        IF suggestions[i].estimatedDuration = 0 THEN DefaultDuration
        ELSE suggestions[i].estimatedDuration]

RECURSIVE SumSeq(_)
SumSeq(s) == IF s = <<>> THEN 0 ELSE Head(s) + SumSeq(Tail(s))

\* C5: for a budget in 5..480, at most 5 suggestions are returned and their
\* durations (estimatedDuration or 30) add up to no more than the budget.
C5_SuggestionsWithinCapAndBudget ==
    /\ Len(suggestions) <= 5
    /\ SumSeq(SuggestedDurations) <= availableMinutes

\* Five tasks taken with budget to spare and a sixth fitting task behind.
C5_Witness ==
    /\ spc = "done"
    /\ Len(suggestions) = 5
    /\ sRemaining >= 5
    /\ sIdx < Len(fittingTasks)
    /\ DurationOf(fittingTasks[sIdx + 1]) <= sRemaining

----------------------------------------------------------------------------
(* Properties of detectFreeSlotsFromEvents                                 *)

\* The busy intervals as C7 takes them: sorted, disjoint, none empty.
BusyWellFormed ==
    /\ \A i \in 1..Len(gEvents) : gEvents[i].end > gEvents[i].start
    /\ \A i, j \in 1..Len(gEvents) :
           i < j => gEvents[i].end <= gEvents[j].start

InBusy(t) == \E i \in 1..Len(gEvents) : gEvents[i].start <= t /\ t < gEvents[i].end

InFree(t) == \E i \in 1..Len(freeSlots) : freeSlots[i].start <= t /\ t < freeSlots[i].end

SetMax(S) == CHOOSE x \in S : \A y \in S : y <= x
SetMin(S) == CHOOSE x \in S : \A y \in S : x <= y

\* The maximal busy-free stretch of the window around a free minute t.
GapLo(t) ==
    SetMax({dayStart} \cup
           { gEvents[i].end : i \in { k \in 1..Len(gEvents) : gEvents[k].end <= t } })

GapHi(t) ==
    SetMin({dayEnd} \cup
           { gEvents[i].start : i \in { k \in 1..Len(gEvents) : gEvents[k].start > t } })

\* C7: for sorted, disjoint, non-empty busy intervals the returned slots are
\* sorted and disjoint, lie in the window, touch no busy interval, and are
\* exactly the maximal busy-free stretches of the window that last at least
\* minDurationMinutes: every minute of the window is busy, or free, or in a
\* stretch shorter than minDurationMinutes.
C7_FreeSlotsPartitionWindow ==
    (gpc = "done" /\ BusyWellFormed) =>
        /\ \A i \in 1..Len(freeSlots) :
               /\ freeSlots[i].start < freeSlots[i].end
               /\ dayStart <= freeSlots[i].start
               /\ freeSlots[i].end <= dayEnd
        /\ \A i, j \in 1..Len(freeSlots) :
               i < j => freeSlots[i].end <= freeSlots[j].start
        /\ \A i \in 1..Len(freeSlots), k \in 1..Len(gEvents) :
               \/ freeSlots[i].end <= gEvents[k].start
               \/ gEvents[k].end <= freeSlots[i].start
        /\ \A t \in dayStart..(dayEnd - 1) :
               /\ InBusy(t) => ~InFree(t)
               /\ ~InBusy(t) =>
                      (InFree(t) <=> GapHi(t) - GapLo(t) >= minDurationMinutes)
               /\ InFree(t) =>
                      \E i \in 1..Len(freeSlots) :
                          /\ freeSlots[i].start = GapLo(t)
                          /\ freeSlots[i].end = GapHi(t)

\* A busy interval inside the window, after a stretch too short to report
\* and before one that was returned.
C7_Witness ==
    /\ gpc = "done"
    /\ BusyWellFormed
    /\ Len(sortedEvents) >= 1
    /\ Len(freeSlots) >= 1
    /\ \E t \in dayStart..(dayEnd - 1) : ~InBusy(t) /\ ~InFree(t)

\* C8: the stretch from the cursor to the next event start (or to dayEnd)
\* is appended as a slot exactly when it lasts at least minDurationMinutes,
\* a stretch of exactly minDurationMinutes included; nothing else is ever
\* appended, so no returned slot is shorter than minDurationMinutes.
C8_GapEmittedIffLongEnough ==
    [][ gpc = "loop" =>
          LET to == IF gIdx <= Len(sortedEvents)
                    THEN sortedEvents[gIdx].start ELSE dayEnd
          IN /\ (to - currentTime >= minDurationMinutes) =>
                    freeSlots' = Append(freeSlots,
                        [start |-> currentTime, end |-> to,
                         durationMinutes |-> to - currentTime])
             /\ (to - currentTime < minDurationMinutes) =>
                    freeSlots' = freeSlots
             /\ \A i \in 1..Len(freeSlots') :
                    /\ freeSlots'[i].durationMinutes >= minDurationMinutes
                    /\ freeSlots'[i].durationMinutes =
                           freeSlots'[i].end - freeSlots'[i].start ]_vars

\* A slot of exactly minDurationMinutes was returned and a shorter stretch
\* before an event was not.
C8_Witness ==
    /\ gpc = "done"
    /\ \E i \in 1..Len(freeSlots) :
           freeSlots[i].durationMinutes = minDurationMinutes
    /\ \E k \in 1..Len(sortedEvents) :
           /\ sortedEvents[k].start > dayStart
           /\ ~InFree(sortedEvents[k].start - 1)
           /\ ~InBusy(sortedEvents[k].start - 1)

----------------------------------------------------------------------------
(* Properties of analyzeCalendar                                           *)

\* C9: the blocks built for a day never overlap and their starts strictly
\* ascend: each block ends no later than the next one starts, and starts
\* before it.
C9_BlocksDisjointAscending ==
    \A i \in 1..(Len(timeBlocks) - 1) :
        /\ timeBlocks[i].end <= timeBlocks[i + 1].start
        /\ timeBlocks[i].start < timeBlocks[i + 1].start

\* 08:00 and 23:00 of the planned day.
WindowOpens == SetHours(today, DayStartHour)
WindowCloses == SetHours(today, DayEndHour)

\* C10: every free block analyzeCalendar adds between and after the events
\* lies within 08:00..23:00 of the planned day.
C10_FreeBlocksInsideDayWindow ==
    \A i \in 1..Len(timeBlocks) :
        timeBlocks[i].eventSummary = "none" =>
            /\ timeBlocks[i].start >= WindowOpens
            /\ timeBlocks[i].end <= WindowCloses

\* Scenario A: one event 09:00-10:00 of the planned day on the calendar
\* labelled "Work".
ScenarioAEvent ==
    [startTime |-> 540, endTime |-> 600, calendarId |-> <<"c", "1">>,
     summary |-> "event"]

\* C11: a single event [s, e) lying inside 08:00..23:00 with more than 15
\* minutes on either side yields exactly three blocks: FREE from 08:00 to s,
\* the event's block, FREE from e to 23:00 of the same day.  For Scenario A
\* these are FREE 08:00-09:00, WORK 09:00-10:00, FREE 10:00-23:00.
C11_SingleEventThreeBlocks ==
    /\ (cpc = "done" /\ Len(cEvents) = 1) =>
           LET ev == cEvents[1]
           IN (/\ ev.startTime - WindowOpens > FreeGapMinutes
               /\ ev.endTime > ev.startTime
               /\ WindowCloses - ev.endTime > FreeGapMinutes) =>
                  timeBlocks = << FreeBlock(WindowOpens, ev.startTime),
                                  EventBlock(ev, userCalendars),
                                  FreeBlock(ev.endTime, WindowCloses) >>
    /\ (cpc = "done" /\ cEvents = <<ScenarioAEvent>>) =>
           timeBlocks = << FreeBlock(480, 540),
                           [start |-> 540, end |-> 600, context |-> "WORK",
                            eventSummary |-> "event"],
                           FreeBlock(600, 1380) >>

\* The events of the day as FreeTimeDetector takes them.
CalendarEventsAsBusy ==
    [i \in 1..Len(cEvents) |->
        [start |-> cEvents[i].startTime, end |-> cEvents[i].endTime]]

\* The blocks analyzeCalendar added between and after the events.
GapBlocks ==
    LET IsGap(b) == b.eventSummary = "none"
    IN SelectSeq(timeBlocks, IsGap)

\* C12: the free blocks analyzeCalendar returns are the slots
\* detectFreeSlotsFromEvents returns for the same events, the window
\* analyzeCalendar scans and minDurationMinutes = 15: as many, with the same
\* start and end, in the same order.
C12_FreeBlocksMatchFreeSlots ==
    cpc = "done" =>
        LET slots == detectFreeSlotsFromEvents(CalendarEventsAsBusy,
                         SetHours(today, DayStartHour), endTime,
                         DefaultMinDuration)
        IN /\ Len(GapBlocks) = Len(slots)
           /\ \A i \in 1..Len(slots) :
                  /\ GapBlocks[i].start = slots[i].start
                  /\ GapBlocks[i].end = slots[i].end

\* C13: every block analyzeCalendar emits ends after it starts, also when
\* an event of the day ends at the instant it starts.
C13_BlocksHavePositiveLength ==
    \A i \in 1..Len(timeBlocks) : timeBlocks[i].end > timeBlocks[i].start

----------------------------------------------------------------------------
(* Properties of detectFreeSlots, convertAllDayEvent, suggestTasksForSlots *)

\* The configuration detectFreeSlots finds for event i, 0 for none.
ConfigOfEvent(i) == FindConfig(configs, dEvents[i].calendarId)

\* Event i is all-day on a calendar whose configuration asks for expansion.
IsExpandable(i) ==
    /\ dEvents[i].isAllDay
    /\ ConfigOfEvent(i) # 0
    /\ configs[ConfigOfEvent(i)].treatAllDayAsSchedule

\* C14: an all-day event on a calendar with expansion enabled comes out of
\* detectFreeSlots' mapping on its own date at the weekday's override times
\* when the configuration has them (Monday: 10:30-12:00) and at
\* defaultStartTime-defaultEndTime otherwise (Scenario B: 09:00-17:00), and
\* the mapping does not fail on it.
C14_AllDayEventExpanded ==
    \A i \in 1..Len(dEvents) :
        IsExpandable(i) =>
            LET midnight == dEvents[i].start
                onMonday == (midnight \div 1440) % 7 = 0
            IN /\ ~(dpc = "threw" /\ dIdx = i)
               /\ i <= Len(processedEvents) =>
                      /\ processedEvents[i].start =
                             midnight + (IF onMonday THEN 630 ELSE 540)
                      /\ processedEvents[i].end =
                             midnight + (IF onMonday THEN 720 ELSE 1020)

\* C15: an event that is not all-day, or whose calendar has the flag off or
\* no configuration at all, leaves the mapping exactly as it was supplied;
\* the mapping never fails on such an event, and the slots returned leave
\* out the time the event occupies as supplied.
C15_UnexpandedEventUnchanged ==
    /\ \A i \in 1..Len(processedEvents) :
           ~IsExpandable(i) => processedEvents[i] = dEvents[i]
    /\ dpc = "threw" => IsExpandable(dIdx)
    /\ gpc = "done" =>
           \A i \in 1..Len(dEvents) : \A k \in 1..Len(freeSlots) :
               ~IsExpandable(i) =>
                   \/ freeSlots[k].end <= dEvents[i].start
                   \/ freeSlots[k].start >= dEvents[i].end

\* An all-day event of the day on a calendar without configuration and a
\* timed event on the calendar that expands all-day events went through the
\* mapping, and the free slots were computed.
C15_Witness ==
    /\ dpc = "done"
    /\ \E i \in 1..Len(dEvents) :
           /\ dEvents[i].isAllDay
           /\ ConfigOfEvent(i) = 0
           /\ processedEvents[i] = dEvents[i]
    /\ \E j \in 1..Len(dEvents) :
           /\ ~dEvents[j].isAllDay
           /\ ConfigOfEvent(j) # 0
           /\ configs[ConfigOfEvent(j)].treatAllDayAsSchedule

\* C20: a task without estimatedDuration counts as a 30-minute task in every
\* component: the allocator and the suggester place it with duration 30, and
\* suggestTasksForSlots offers it for every slot of at least 30 minutes and
\* for no shorter slot.
C20_MissingEstimateCountsAsThirty ==
    /\ \A i \in 1..Len(placements) :
           TaskById(placements[i].task).estimatedDuration = 0 =>
               placements[i].duration = 30
    /\ \A i \in 1..Len(suggestions) :
           suggestions[i].estimatedDuration = 0 =>
               LET after == IF i < Len(suggestions)
                            THEN suggestions[i + 1].remainingBefore
                            ELSE sRemaining
               IN suggestions[i].remainingBefore - after = 30
    /\ dpc = "done" =>
           \A k \in 1..Len(slotSuggestions) : \A t \in 1..Len(slotTasks) :
               slotTasks[t].estimatedDuration = 0 =>
                   LET offered == \E o \in 1..Len(slotSuggestions[k].tasks) :
                                      slotSuggestions[k].tasks[o].id
                                          = slotTasks[t].id
                   IN offered <=> slotSuggestions[k].slot.durationMinutes >= 30

----------------------------------------------------------------------------
(* The worked example of the allocator                                     *)

\* Scenario C: one free block of 60 minutes; candidates, in priority order,
\* a PERSONAL task of 45 minutes and a PERSONAL task of 30 minutes.
ScenarioCInput ==
    /\ blocks = << [start |-> 480, end |-> 540, context |-> "FREE"] >>
    /\ Len(tasks) = 2
    /\ tasks[1].context = "PERSONAL" /\ tasks[1].estimatedDuration = 45
    /\ tasks[2].context = "PERSONAL" /\ tasks[2].estimatedDuration = 30

\* C16: in Scenario C the first task is placed and leaves 15 minutes; 15 is
\* not below 15, so the loop goes on to the second task, which is not
\* placed because 30 > 15; the block is left with exactly one placement,
\* 15 minutes unused and the second task still in the pool.
C16_ScenarioCOnePlacement ==
    ScenarioCInput =>
        /\ Len(assignments) <= 1
        /\ (apc = "fit" /\ taskIdx = 2) =>
               assignments = <<1>> /\ remainingTime = 15
        /\ blockIdx = 2 =>
               /\ assignments = <<1>>
               /\ remainingTime = 15
               /\ taskIdx = 3
               /\ availableTasks = <<tasks[2]>>

\* Scenario C has run to its return, the loop having gone past both tasks.
C16_Witness ==
    /\ ScenarioCInput
    /\ apc = "done"
    /\ assignments = <<1>>
    /\ taskIdx = 3
    /\ remainingTime = 15

----------------------------------------------------------------------------
(* Further properties of generateSuggestions                               *)

\* Minutes a task of the suggester's input takes: its estimate, 30 without.
MinutesOf(estimate) == IF estimate = 0 THEN 30 ELSE estimate

\* C17: generateSuggestions considers and selects only tasks whose own
\* duration is at most availableMinutes; when no task qualifies it has
\* nothing to go through and returns the empty list (Scenario D: budget 20,
\* every task 30 minutes long).
C17_OnlyTasksWithinBudget ==
    /\ \A i \in 1..Len(fittingTasks) :
           MinutesOf(fittingTasks[i].estimatedDuration) <= availableMinutes
    /\ \A i \in 1..Len(suggestions) :
           /\ MinutesOf(suggestions[i].estimatedDuration) <= availableMinutes
           /\ \E t \in 1..Len(sTasks) :
                  /\ sTasks[t].id = suggestions[i].id
                  /\ sTasks[t].estimatedDuration
                         = suggestions[i].estimatedDuration
    /\ (/\ spc \in {"loop", "done"}
        /\ \A t \in 1..Len(sTasks) :
               MinutesOf(sTasks[t].estimatedDuration) > availableMinutes) =>
           /\ fittingTasks = <<>>
           /\ suggestions = <<>>
           /\ sRemaining = availableMinutes

\* Scenario D: 20 minutes, several tasks, each 30 minutes long (no
\* estimate), and the call has returned the empty list.
C17_Witness ==
    /\ spc = "done"
    /\ availableMinutes = 20
    /\ Len(sTasks) >= 2
    /\ \A t \in 1..Len(sTasks) : sTasks[t].estimatedDuration = 0
    /\ suggestions = <<>>

----------------------------------------------------------------------------
(* Order of consideration inside a WORK block                              *)

\* The placement of task id in the current call, 0 if it has none.
PlacementOf(id) ==
    IF \E k \in 1..Len(placements) : placements[k].task = id
    THEN CHOOSE k \in 1..Len(placements) : placements[k].task = id
    ELSE 0

\* Task id was still in the pool when block b was reached.
InPoolAt(id, b) == PlacementOf(id) = 0 \/ placements[PlacementOf(id)].block >= b

\* Minutes of block b left when the WORK task id had its turn: the block's
\* length less the WORK tasks ahead of it in the pool that went into b.
LeftAtTurn(id, b) ==
    BlockDuration(blocks[b])
    - SumDurations({ k \in PlacementsIn(b) :
                       /\ TaskById(placements[k].task).context = "WORK"
                       /\ placements[k].task < id })

\* C18: in a WORK block the WORK tasks of the pool are taken, in pool
\* order, before any PERSONAL task: placements into the block list WORK
\* tasks by ascending pool position and then PERSONAL tasks, and when a
\* PERSONAL task is placed every WORK task that was in the pool at that
\* block has been placed in it already or was longer than what was left of
\* the block at its turn.
C18_WorkTasksBeforePersonal ==
    \A k \in 1..Len(placements) :
        LET b == placements[k].block
            p == TaskById(placements[k].task)
        IN blocks[b].context = "WORK" =>
             /\ p.context \in {"WORK", "PERSONAL"}
             /\ \A j \in 1..(k - 1) :
                    placements[j].block = b =>
                        LET q == TaskById(placements[j].task)
                        IN /\ p.context = "WORK" =>
                                 q.context = "WORK" /\ q.id < p.id
                           /\ q.context = "PERSONAL" =>
                                 p.context = "PERSONAL" /\ q.id < p.id
             /\ p.context = "PERSONAL" =>
                    \A w \in 1..Len(tasks) :
                        (tasks[w].context = "WORK" /\ InPoolAt(tasks[w].id, b)) =>
                            \/ /\ PlacementOf(tasks[w].id) # 0
                               /\ PlacementOf(tasks[w].id) < k
                               /\ placements[PlacementOf(tasks[w].id)].block = b
                            \/ DurationOf(tasks[w]) > LeftAtTurn(tasks[w].id, b)

\* A WORK block took a WORK task, passed over a WORK task that no longer
\* fitted, and then took a PERSONAL task that stands ahead of both in the
\* caller's list.
C18_Witness ==
    /\ apc = "done"
    /\ \E k \in 1..Len(placements) :
           LET b == placements[k].block
               p == TaskById(placements[k].task)
           IN /\ blocks[b].context = "WORK"
              /\ p.context = "PERSONAL"
              /\ \E j \in 1..(k - 1) :
                     /\ placements[j].block = b
                     /\ TaskById(placements[j].task).context = "WORK"
                     /\ placements[j].task > p.id
              /\ \E w \in 1..Len(tasks) :
                     /\ tasks[w].context = "WORK"
                     /\ PlacementOf(tasks[w].id) = 0
                     /\ tasks[w].id > p.id

----------------------------------------------------------------------------
(* Classification of an event by its calendar                              *)

\* text holds marker somewhere, letter case aside.
HoldsMarker(text, marker) ==
    \E at \in 0..(Len(text) - Len(marker)) :
        \A k \in 1..Len(marker) : UpperOf(text[at + k]) = marker[k]

\* The label (empty when the calendar is not an enabled one) or the id of
\* the event's calendar holds one of the markers.
CalendarHolds(event, markers) ==
    \E m \in markers :
        \/ HoldsMarker(event.calendarId, m)
        \/ \E c \in 1..Len(userCalendars) :
               /\ userCalendars[c].calendarId = event.calendarId
               /\ \A d \in (c + 1)..Len(userCalendars) :
                      userCalendars[d].calendarId # event.calendarId
               /\ HoldsMarker(userCalendars[c].label, m)

\* C19: an event is LEARNING exactly when the label or id of its calendar
\* holds a learning marker, whatever the letter case and whether or not a
\* work marker is there too; it is WORK exactly when there is no learning
\* marker and a work marker; and FREE otherwise, which includes a calendar
\* without known label whose id holds no marker.
C19_LearningBeforeWorkBeforeFree ==
    \A i \in 1..Len(timeBlocks) :
        (Len(cEvents) = 1 /\ timeBlocks[i].eventSummary = "event") =>
            LET event == cEvents[1]
                learning == CalendarHolds(event, LearningMarkers)
                work == CalendarHolds(event, WorkMarkers)
            IN /\ timeBlocks[i].context = "LEARNING" <=> learning
               /\ timeBlocks[i].context = "WORK" <=> (~learning /\ work)
               /\ timeBlocks[i].context = "FREE" <=> (~learning /\ ~work)

\* An event was classified LEARNING although its calendar's label is
\* "Work": the id holds "hyp".
C19_Witness ==
    /\ cpc = "done"
    /\ cEvents[1].calendarId = <<"h", "y", "p">>
    /\ \E c \in 1..Len(userCalendars) :
           /\ userCalendars[c].calendarId = <<"h", "y", "p">>
           /\ userCalendars[c].label = <<"W", "o", "r", "k">>
    /\ Len(userCalendars) = 1
    /\ timeBlocks[2].context = "LEARNING"

----------------------------------------------------------------------------
(* Status of the tasks chosen                                              *)

----------------------------------------------------------------------------
(* The justification of a suggestion                                       *)

HasNote(reasoning, text) ==
    \E n \in 1..Len(reasoning) : reasoning[n].note = text

\* C22: a suggestion whose duration is at most half the budget and equal
\* to the time that remained when it was selected carries both the "fits
\* well" note and the "fills the remaining time exactly" note.
C22_BothDurationNotes ==
    \A i \in 1..Len(suggestions) :
        LET duration == MinutesOf(suggestions[i].estimatedDuration)
        IN (/\ 2 * duration <= availableMinutes
            /\ duration = suggestions[i].remainingBefore) =>
               /\ HasNote(suggestions[i].reasoning, "S'integre bien")
               /\ HasNote(suggestions[i].reasoning,
                          "Remplit parfaitement le temps restant")

----------------------------------------------------------------------------
(* Order of the events handed to the detector                              *)

\* The list with its first two events exchanged, and the list with its
\* first event moved to the end.  Every reordering of a list is reached by
\* repeating these two, and every list of events up to MaxEvents is an
\* input of the model, so a result that survives both for every list
\* survives every reordering.
FirstTwoExchanged(events) ==
    IF Len(events) < 2 THEN events
    ELSE <<events[2], events[1]>> \o SubSeq(events, 3, Len(events))

FirstMovedLast(events) ==
    IF Len(events) < 2 THEN events
    ELSE Tail(events) \o <<Head(events)>>

\* C23: the slots returned for a list of events are the slots returned for
\* every reordering of that list (here: for the exchange of two events and
\* for the rotation of the list), the window and minDurationMinutes being
\* the same.
C23_SlotsIndependentOfEventOrder ==
    gpc = "done" =>
        /\ detectFreeSlotsFromEvents(FirstTwoExchanged(gEvents), dayStart,
                                     dayEnd, minDurationMinutes) = freeSlots
        /\ detectFreeSlotsFromEvents(FirstMovedLast(gEvents), dayStart,
                                     dayEnd, minDurationMinutes) = freeSlots

\* Slots were returned for events supplied out of order, two of them
\* starting at the same instant and ending at different ones.
C23_Witness ==
    /\ gpc = "done"
    /\ Len(gEvents) = 3
    /\ gEvents[1].start > gEvents[2].start
    /\ gEvents[2].start = gEvents[3].start
    /\ gEvents[2].end > gEvents[3].end
    /\ gEvents[2].start > dayStart
    /\ Len(freeSlots) >= 1

----------------------------------------------------------------------------
(* What the allocator leaves to its caller                                 *)

\* C24: no step of assignTasksToBlocks changes the task list or the block
\* list of its caller: same elements, same order, same fields.  What a call
\* removes it removes from its own pool, and a further call with the same
\* list starts from the whole list.
C24_CallerListsUntouched ==
    [][ /\ tasks' = tasks
        /\ blocks' = blocks
        /\ (apc = "done" /\ apc' = "block") => availableTasks' = tasks ]_vars

\* The call has returned with tasks placed: its pool is shorter than the
\* caller's list.
C24_Witness ==
    /\ apc = "done"
    /\ Len(assignments) >= 2
    /\ Len(availableTasks) = Len(tasks) - Len(assignments)

----------------------------------------------------------------------------
(* Short and degenerate blocks                                             *)

\* C25: a block shorter than 15 minutes, a block with end <= start
\* included, is passed over in one step that places nothing and leaves the
\* pool as it was, and no placement is ever made into such a block.
C25_ShortBlockSkipped ==
    [][ /\ (/\ apc = "block"
            /\ blockIdx <= Len(blocks)
            /\ blocks[blockIdx].end - blocks[blockIdx].start < 15) =>
               /\ apc' = "block"
               /\ blockIdx' = blockIdx + 1
               /\ assignments' = assignments
               /\ availableTasks' = availableTasks
        /\ \A k \in 1..Len(placements') :
               LET b == blocks[placements'[k].block]
               IN b.end - b.start >= 15 ]_vars

\* A call went past a block that ends before it starts and a ten-minute
\* block with a five-minute task in the pool, and returned with that task
\* unplaced.
C25_Witness ==
    /\ apc = "done"
    /\ Len(blocks) = 2
    /\ blocks[1].end < blocks[1].start
    /\ blocks[2].end - blocks[2].start = 10
    /\ \E t \in 1..Len(availableTasks) : availableTasks[t].estimatedDuration = 5
    /\ assignments = <<>>

----------------------------------------------------------------------------
(* The stop rule of a block                                                *)

\* C26: inside a block the scan of the eligible list goes on while at
\* least 15 minutes remain and ends as soon as fewer remain.  A task is
\* therefore only ever examined, and placed, with 15 minutes or more
\* remaining (with exactly 15 a task of up to 15 minutes is placed), and
\* after a step that leaves fewer than 15 the block is left at once, the
\* tasks behind staying in the pool even when they would fit.
C26_ScanStopsBelowFifteen ==
    [][ (apc = "fit" /\ taskIdx <= Len(eligibleTasks)) =>
          LET duration == IF eligibleTasks[taskIdx].estimatedDuration = 0
                          THEN 30
                          ELSE eligibleTasks[taskIdx].estimatedDuration
          IN /\ remainingTime >= 15
             /\ duration <= remainingTime =>
                    /\ assignments' =
                           Append(assignments, eligibleTasks[taskIdx].id)
                    /\ remainingTime' = remainingTime - duration
             /\ duration > remainingTime =>
                    /\ assignments' = assignments
                    /\ remainingTime' = remainingTime
             /\ remainingTime' < 15 =>
                    apc' = "block" /\ blockIdx' = blockIdx + 1
             /\ remainingTime' >= 15 =>
                    apc' = "fit" /\ taskIdx' = taskIdx + 1
                    /\ blockIdx' = blockIdx ]_vars

\* A free hour took a 45-minute task, then, with exactly 15 minutes left,
\* a five-minute task, and was left with 10 minutes unused although another
\* five-minute task is still in the pool.
C26_Witness ==
    /\ apc = "done"
    /\ Len(blocks) = 1
    /\ Len(placements) = 2
    /\ placements[1].duration = 45
    /\ placements[2].remainingBefore = 15
    /\ placements[2].duration = 5
    /\ remainingTime = 10
    /\ \E t \in 1..Len(availableTasks) :
           availableTasks[t].estimatedDuration = 5

----------------------------------------------------------------------------
(* First fit in list order                                                 *)

\* The caller's tasks no placement of the current call has taken before
\* block b, in the caller's order.
UnplacedBefore(b) ==
    LET Free(task) == PlacementOf(task.id) = 0
                      \/ placements[PlacementOf(task.id)].block >= b
    IN SelectSeq(tasks, Free)

\* The pool is the caller's list without the placed tasks, in the caller's
\* order.
PoolKeepsCallerOrder ==
    apc \in {"block", "fit"} =>
        LET Unplaced(task) == PlacementOf(task.id) = 0
        IN availableTasks = SelectSeq(tasks, Unplaced)

\* The list scanned in the block at hand holds, in the caller's order,
\* every task of matching context that no earlier block took.
ScannedListKeepsRank ==
    apc = "fit" =>
        eligibleTasks = EligibleTasks(blocks[blockIdx], UnplacedBefore(blockIdx))

\* C27: a task longer than what is left of the block is passed over: the
\* scan goes on with the next task of the list, which is placed if it
\* fits, and the task stays in the pool.  The pool is at all times the
\* caller's list without the placed tasks, in the caller's order, and the
\* list scanned in a block holds, in that order, every task of matching
\* context not placed in an earlier block: the task passed over comes up
\* again at its rank in every later block.
C27_FirstFitInListOrder ==
    /\ [](PoolKeepsCallerOrder /\ ScannedListKeepsRank)
    /\ [][ (/\ apc = "fit"
            /\ taskIdx <= Len(eligibleTasks)
            /\ DurationOf(eligibleTasks[taskIdx]) > remainingTime) =>
               /\ availableTasks' = availableTasks
               /\ assignments' = assignments
               /\ apc' = "fit"
               /\ taskIdx' = taskIdx + 1
               /\ eligibleTasks' = eligibleTasks ]_vars

\* A block passed over a task, took a task ranked behind it, and a later
\* block took the task passed over.
C27_Witness ==
    /\ apc = "done"
    /\ \E i, j \in 1..Len(placements) :
           /\ placements[i].block < placements[j].block
           /\ placements[i].task > placements[j].task
           /\ DurationOf(TaskById(placements[j].task))
                  > placements[i].remainingBefore
           /\ DurationOf(TaskById(placements[j].task))
                  <= BlockDuration(blocks[placements[i].block])

----------------------------------------------------------------------------
(* Nothing that fits is left behind                                        *)

\* Minutes of block b its placements do not use.
FinalRemaining(b) == BlockDuration(blocks[b]) - SumDurations(PlacementsIn(b))

\* The block's category takes tasks of this context: a WORK block WORK and
\* PERSONAL tasks, a FREE block PERSONAL and LEARNING tasks.
Accepts(block, context) ==
    \/ block.context = "WORK" /\ context \in {"WORK", "PERSONAL"}
    \/ block.context = "FREE" /\ context \in {"PERSONAL", "LEARNING"}

\* C28: when assignTasksToBlocks has returned, every unplaced task is
\* longer than what is left of every block of at least 15 minutes, other
\* than a LEARNING block, that accepts its context and still has 15
\* minutes or more unused.
C28_NoFittingTaskLeftBehind ==
    apc = "done" =>
        \A t \in 1..Len(tasks) : \A b \in 1..Len(blocks) :
            (/\ PlacementOf(tasks[t].id) = 0
             /\ blocks[b].context # "LEARNING"
             /\ blocks[b].end - blocks[b].start >= 15
             /\ Accepts(blocks[b], tasks[t].context)
             /\ FinalRemaining(b) >= 15) =>
                (IF tasks[t].estimatedDuration = 0 THEN 30
                 ELSE tasks[t].estimatedDuration) > FinalRemaining(b)

\* An hour of work took a ten-minute task and was left with 50 minutes,
\* the hour-long work task of the list remaining unplaced.
C28_Witness ==
    /\ apc = "done"
    /\ \E b \in 1..Len(blocks) :
           /\ blocks[b].context = "WORK"
           /\ PlacementsIn(b) # {}
           /\ FinalRemaining(b) >= 15
           /\ \E t \in 1..Len(tasks) :
                  /\ tasks[t].context = "WORK"
                  /\ PlacementOf(tasks[t].id) = 0

\* Minutes of the budget the suggestions do not use.
Leftover == availableMinutes - SumSeq(SuggestedDurations)

\* C29: when generateSuggestions has returned fewer than 5 suggestions and
\* 5 minutes or more of the budget are unused, every task of the input that
\* was not selected lasts (estimatedDuration or 30) longer than the unused
\* time.
C29_SuggestionsMaximal ==
    (spc = "done" /\ Len(suggestions) < 5 /\ Leftover >= 5) =>
        \A t \in 1..Len(sTasks) :
            (\A i \in 1..Len(suggestions) : suggestions[i].id # sTasks[t].id) =>
                MinutesOf(sTasks[t].estimatedDuration) > Leftover

\* Two tasks were suggested and 5 minutes or more are unused, with tasks
\* of the input left unselected.
C29_Witness ==
    /\ spc = "done"
    /\ Len(suggestions) = 2
    /\ Leftover >= 5
    /\ Len(sTasks) >= 4

----------------------------------------------------------------------------
(* The rate limiter under concurrent requests                              *)

\* Requests recorded in the minute that ends with the request of stamp t.
RecordedInMinuteUpTo(t) ==
    Cardinality({ i \in 1..Len(requestsPerMinute) :
                    /\ requestsPerMinute[i] > t - MinuteSeconds
                    /\ requestsPerMinute[i] <= t })

\* C30: however the handlers interleave, no 60-second window holds more
\* than MAX_PER_MINUTE (15) recorded requests and the daily counter never
\* exceeds MAX_PER_DAY (1500).
C30_UsageWithinLimits ==
    /\ \A i \in 1..Len(requestsPerMinute) :
           RecordedInMinuteUpTo(requestsPerMinute[i]) <= 15
    /\ requestsPerDay <= 1500

====
